---- MODULE Spec2Model ----
(***************************************************************************)
(* Client-side connection bootstrap of tungstenite (src/client):           *)
(* connect_with_config with its redirect loop, try_client_handshake,       *)
(* connect_to_some, uri_mode and the wrap_stream strategies.               *)
(*                                                                         *)
(* The resolver, TcpStream::connect, the TLS libraries and the handshake   *)
(* engine (ClientHandshake) are the environment.  The handshake engine is  *)
(* a stub that follows a plan fixed when the call starts: it answers its   *)
(* first plan.redirects invocations with a 3xx response carrying a valid   *)
(* Location header and the next invocation with plan.final.                *)
(***************************************************************************)
EXTENDS Integers, Sequences, FiniteSets, TLC

VARIABLES
    max_redirects,   \* parameter max_redirects: u8
    backend,         \* the wrapper strategy linked into the build
    entry,           \* the public function the caller invoked
    plan,            \* what the handshake engine will report, per invocation
    parts,           \* let (parts, _): method, version and headers of the request
    request,         \* let request = create_request(&parts, &uri)
    engine_request,  \* the Request of the latest client_with_config call
    wrapped,         \* per address: the domain its wrap_stream call was given
    open,            \* the TCP streams this call has connected and not dropped
    uri,             \* let mut uri (the current target), or the bad input
    bound,           \* the end of the range 0..(max_redirects + 1)
    attempt,         \* the loop variable of the for loop
    pc,              \* position inside connect_with_config
    mode,            \* let mode = uri_mode(uri)?
    port,            \* let port
    addrs,           \* number of addresses resolved, addresses are 1..addrs
    idx,             \* position of connect_to_some's for loop
    tried,           \* per address: number of TcpStream::connect calls
    outcome,         \* per address: what happened to it in this call
    domain,          \* let domain in connect_to_some
    stream,          \* the stream connect_to_some returned
    res,             \* value of try_client_handshake(request, config, wrapper)
    result,          \* how connect_with_config ended
    attempts,        \* number of try_client_handshake calls so far
    engine_calls,    \* number of client_with_config calls so far
    connector_failed \* some attempt ended before the engine was invoked

vars == << entry, max_redirects, backend, plan, parts, request, engine_request,
           wrapped, open, uri, bound, attempt, pc, mode, port,
           addrs, idx, tried, outcome, domain, stream, res, result, attempts,
           engine_calls, connector_failed >>

----------------------------------------------------------------------------
(* Bounds of the model *)

MaxRedirects == 2
MaxPlanRedirects == 2
MaxAddrs == 3

(* Program constants *)

U8Max == 255
PlainPort == 80
TlsPort == 443

----------------------------------------------------------------------------
(* Values *)

NoScheme == "<no scheme>"
NoHost == "<no host>"
\* Option<u16> of Uri::port_u16
NoPort == [some |-> FALSE]
SomePort(n) == [some |-> TRUE, val |-> n]


\* A Uri as far as this code looks at it: scheme_str(), host(), port_u16().
Uris ==
    { [scheme |-> "ws", host |-> "a.example", port |-> NoPort],
      [scheme |-> "ws", host |-> "b.example", port |-> SomePort(8080)],
      [scheme |-> "wss", host |-> "b.example", port |-> NoPort],
      [scheme |-> "wss", host |-> "a.example", port |-> SomePort(8080)] }
    \cup { [scheme |-> "http", host |-> "a.example", port |-> NoPort],
           [scheme |-> "WSS", host |-> "a.example", port |-> NoPort],
           [scheme |-> NoScheme, host |-> NoHost, port |-> NoPort],
           [scheme |-> NoScheme, host |-> "a.example", port |-> SomePort(8080)],
           [scheme |-> "ws", host |-> NoHost, port |-> NoPort] }

BadInput == [scheme |-> "<unparsable>", host |-> NoHost, port |-> NoPort]

\* Result<T, Error>, plus a panic that unwinds out of the call.
Ok(v) == [tag |-> "Ok", val |-> v]
Err(e) == [tag |-> "Err", err |-> e]
Panic(m) == [tag |-> "Panic", msg |-> m]
None == [tag |-> "None"]

NoHeader == [present |-> FALSE]
HeaderValue(text, syntax, target) ==
    [present |-> TRUE, text |-> text, syntax |-> syntax, target |-> target]

AnyUri == [scheme |-> "ws", host |-> "a.example", port |-> NoPort]

ValidLocations == { HeaderValue(TRUE, TRUE, u) : u \in Uris }
NotTextLocation == HeaderValue(FALSE, FALSE, AnyUri)
NotUriLocation == HeaderValue(TRUE, FALSE, AnyUri)

\* a Response, and the engine invocation whose exchange produced it
Response(status, location, call) ==
    [status |-> status, location |-> location, call |-> call]

Finals == { "Success", "RedirectNoLocation", "RedirectNotText",
            "RedirectNotUri", "HttpNotFound", "Protocol", "Interrupted" }

Plans == { [redirects |-> r, final |-> f] :
             r \in (0 .. MaxPlanRedirects) \cup {U8Max + 1}, f \in Finals }

Backends == {"plain", "native_tls", "rustls"}

\* method, version and headers of a normalized request: the one built from
\* a bare URL and one the caller built
Parts ==
    { [method |-> "GET", version |-> "HTTP/1.1", headers |-> {}],
      [method |-> "POST", version |-> "HTTP/2.0",
       headers |-> {"Authorization", "Sec-WebSocket-Protocol"}] }

TlsEnvs == { "ok", "build_fails", "handshake_fails", "would_block",
             "bad_dns_name" }

----------------------------------------------------------------------------
(* Pure functions of the source *)

\* uri_mode with a catch-all arm that yields Plain
uri_mode_DefaultsPlain(u) ==
    CASE u.scheme = "wss" -> Ok("Tls")
      [] OTHER -> Ok("Plain")

\* uri_mode, mod.rs 188-194
uri_mode(u) ==
    CASE u.scheme = "ws" -> Ok("Plain")
      [] u.scheme = "wss" -> Ok("Tls")
      [] OTHER -> Err([kind |-> "Url", msg |-> "URL scheme not supported"])

\* is_redirection that takes every status from 300 up for a redirect
is_redirection_NoUpperEnd(status) == 300 <= status

\* StatusCode::is_redirection as used at mod.rs 98
is_redirection(status) == 300 <= status /\ status < 400

\* default_port with the two ports exchanged
default_port_Swapped(m) == IF m = "Plain" THEN TlsPort ELSE PlainPort

\* the default port of try_client_handshake, mod.rs 68-71
default_port(m) == IF m = "Plain" THEN PlainPort ELSE TlsPort

\* uri.port_u16().unwrap_or(..), mod.rs 68
port_of(u, m) == IF u.port.some THEN u.port.val ELSE default_port(m)

\* create_request that starts from Request::get and copies the headers only
create_request_Get(p, u) ==
    [uri |-> u, method |-> "GET", version |-> "HTTP/1.1",
     headers |-> p.headers]

\* create_request, mod.rs 81-86
create_request(p, u) ==
    [uri |-> u, method |-> p.method, version |-> p.version,
     headers |-> p.headers]

\* max_redirects + 1 on u8 when overflow checks are off, mod.rs 94
range_end(m) == (m + 1) % (U8Max + 1)

\* parse_location that takes any header value as the next target
parse_location_Lenient(h) == Ok(h.target)

\* location.to_str()?.parse::<Uri>()?, mod.rs 100
parse_location(h) ==
    IF ~h.text THEN Err([kind |-> "ToStr", msg |-> "Location is not text"])
    ELSE IF ~h.syntax THEN Err([kind |-> "InvalidUri", msg |-> "Location is not a URI"])
    ELSE Ok(h.target)


\* plain_wrap_stream that hands the stream back under either mode
plain_wrap_stream_PassThrough(m, env) ==
    Ok([variant |-> "Tcp", tls |-> "none", latent |-> "none"])

\* plain::Wrapper::wrap_stream, plain.rs 21-31
plain_wrap_stream(m, env) ==
    IF m = "Plain" THEN Ok([variant |-> "Tcp", tls |-> "none", latent |-> "none"])
    ELSE Err([kind |-> "Url", msg |-> "TLS support not compiled in."])

\* native_tls_wrap_stream that runs the TLS handshake whatever the mode
native_tls_wrap_stream_AlwaysTls(m, env) ==
    CASE env = "build_fails" ->
           Err([kind |-> "Tls", msg |-> "TlsConnector::build"])
      [] env \in {"handshake_fails", "bad_dns_name"} ->
           Err([kind |-> "Tls", msg |-> "TlsHandshakeError::Failure"])
      [] env = "would_block" -> Panic("Bug: TLS handshake not blocked")
      [] OTHER -> Ok([variant |-> "NativeTls(Tls)", tls |-> "established",
                      latent |-> "none"])

\* native_tls::Wrapper::wrap_stream, tls.rs 116-133
native_tls_wrap_stream(m, env) ==
    IF m = "Plain" THEN Ok([variant |-> "NativeTls(Plain)", tls |-> "none",
                            latent |-> "none"])
    ELSE CASE env = "build_fails" ->
                Err([kind |-> "Tls", msg |-> "TlsConnector::build"])
           [] env \in {"handshake_fails", "bad_dns_name"} ->
                Err([kind |-> "Tls", msg |-> "TlsHandshakeError::Failure"])
           [] env = "would_block" -> Panic("Bug: TLS handshake not blocked")
           [] OTHER -> Ok([variant |-> "NativeTls(Tls)", tls |-> "established",
                           latent |-> "none"])

\* rustls_wrap_stream that completes the handshake before it returns
rustls_wrap_stream_Eager(m, env) ==
    IF m = "Plain" THEN Ok([variant |-> "Rustls(Plain)", tls |-> "none",
                            latent |-> "none"])
    ELSE CASE env \in {"handshake_fails", "bad_dns_name"} ->
                Err([kind |-> "Tls", msg |-> "handshake"])
           [] env = "would_block" -> Panic("Bug: TLS handshake not blocked")
           [] OTHER -> Ok([variant |-> "Rustls(Tls)", tls |-> "established",
                           latent |-> "none"])

\* rustls::Wrapper::wrap_stream, tls.rs 158-174: StreamOwned::new starts no
\* handshake, so what the handshake will meet stays latent in the stream
rustls_wrap_stream(m, env) ==
    IF m = "Plain" THEN Ok([variant |-> "Rustls(Plain)", tls |-> "none",
                            latent |-> "none"])
    ELSE IF env = "bad_dns_name"
         THEN Err([kind |-> "Tls", msg |-> "DNSNameRef::try_from_ascii_str"])
         ELSE Ok([variant |-> "Rustls(Tls)", tls |-> "not started",
                  latent |-> IF env \in {"handshake_fails", "would_block"}
                             THEN env ELSE "none"])

\* wrapper.wrap_stream(raw_stream, domain, mode) for the linked strategy
wrap_stream(b, m, env) ==
    CASE b = "plain" -> plain_wrap_stream(m, env)
      [] b = "native_tls" -> native_tls_wrap_stream(m, env)
      [] OTHER -> rustls_wrap_stream(m, env)

\* What ClientHandshake::start(..)?.handshake() reports on its k-th
\* invocation (client_with_config, mod.rs 211), loc being the Location the
\* server puts on a redirect.
engine_outcome(p, k, loc) ==
    IF k <= p.redirects
    THEN [tag |-> "Failure", err |-> [kind |-> "Http", response |-> Response(301, loc, k)]]
    ELSE CASE p.final = "Success" ->
                [tag |-> "Ok", response |-> Response(101, NoHeader, k)]
           [] p.final = "RedirectNoLocation" ->
                [tag |-> "Failure",
                 err |-> [kind |-> "Http", response |-> Response(302, NoHeader, k)]]
           [] p.final = "RedirectNotText" ->
                [tag |-> "Failure",
                 err |-> [kind |-> "Http", response |-> Response(307, NotTextLocation, k)]]
           [] p.final = "RedirectNotUri" ->
                [tag |-> "Failure",
                 err |-> [kind |-> "Http", response |-> Response(308, NotUriLocation, k)]]
           [] p.final = "HttpNotFound" ->
                [tag |-> "Failure",
                 err |-> [kind |-> "Http", response |-> Response(404, loc, k)]]
           [] p.final = "Protocol" ->
                [tag |-> "Failure", err |-> [kind |-> "Protocol", msg |-> "handshake"]]
           [] OTHER -> [tag |-> "Interrupted"]

\* What the engine reports when it runs over stream st and the exchange
\* would give o: a TLS handshake still latent in st happens on the first
\* read or write and its failure or would-block comes out of the engine.
handshake_over(st, o) ==
    CASE st.latent = "handshake_fails" ->
           [tag |-> "Failure", err |-> [kind |-> "Io", msg |-> "TLS handshake"]]
      [] st.latent = "would_block" -> [tag |-> "Interrupted"]
      [] OTHER -> o

\* the guard of the first match arm, mod.rs 98
is_redirect_arm(r, a, m) ==
    /\ r.tag = "Err"
    /\ r.err.kind = "Http"
    /\ is_redirection(r.err.response.status)
    /\ a < m

----------------------------------------------------------------------------
(* State *)

NoMode == "<no mode>"
NoDomain == "<no domain>"
NoStream == [addr |-> 0, variant |-> "<none>", tls |-> "none", latent |-> "none"]
Untried == [a \in 1 .. MaxAddrs |-> "untried"]
ZeroTried == [a \in 1 .. MaxAddrs |-> 0]
NoRequest == [uri |-> BadInput, method |-> "<none>", version |-> "<none>",
              headers |-> {}]
Unwrapped == [a \in 1 .. MaxAddrs |-> NoDomain]
\* the TCP stream connected to address a in the attempt with index i
Tcp(i, a) == [attempt |-> i, addr |-> a]

\* the stream a caller of client or client_with_config brings along
CallerStream == [addr |-> 0, variant |-> "caller", tls |-> "none",
                 latent |-> "none"]

Init ==
    /\ \/ /\ entry = "connect_with_config"
          /\ max_redirects \in (0 .. MaxRedirects) \cup {U8Max}
          /\ pc = "start"
          /\ stream = NoStream
       \/ /\ entry \in {"client", "client_with_config"}
          /\ max_redirects = 0
          /\ pc = entry
          /\ stream = CallerStream
    /\ backend \in Backends
    /\ plan \in Plans
    /\ parts \in Parts
    /\ request = NoRequest
    /\ engine_request = NoRequest
    /\ wrapped = Unwrapped
    /\ open = {}
    /\ uri \in Uris \cup {BadInput}
    /\ bound = 0
    /\ attempt = 0
    /\ mode = NoMode
    /\ port = 0
    /\ addrs = 0
    /\ idx = 0
    /\ tried = ZeroTried
    /\ outcome = Untried
    /\ domain = NoDomain
    /\ res = None
    /\ result = None
    /\ attempts = 0
    /\ engine_calls = 0
    /\ connector_failed = FALSE

params == << entry, max_redirects, backend, plan, parts >>
attempt_locals == << mode, port, addrs, idx, tried, outcome, domain, stream >>
counters == << attempts, engine_calls >>

\* connect_with_config returns or unwinds with r
Finish(r) ==
    /\ result' = r
    /\ pc' = "done"


----------------------------------------------------------------------------
(* connect_with_config, mod.rs 51-113 *)

\* let (parts, _) = request.into_client_request()?.into_parts(), mod.rs 88-89
Normalize ==
    /\ pc = "start"
    /\ IF uri = BadInput
       THEN /\ Finish(Err([kind |-> "Url", msg |-> "into_client_request"]))
            /\ connector_failed' = TRUE
       ELSE /\ pc' = "range"
            /\ UNCHANGED << result, connector_failed >>
    /\ UNCHANGED << params, uri, bound, attempt, attempt_locals, res, counters >>
    /\ UNCHANGED << request, engine_request, wrapped, open >>

\* evaluating 0..(max_redirects + 1), mod.rs 94: the u8 addition panics in
\* a build with overflow checks and wraps in a build without them
EnterLoop ==
    /\ pc = "range"
    /\ \E overflow_checks \in BOOLEAN :
         IF overflow_checks /\ max_redirects + 1 > U8Max
         THEN /\ Finish(Panic("attempt to add with overflow"))
              /\ UNCHANGED bound
         ELSE /\ bound' = range_end(max_redirects)
              /\ pc' = "for"
              /\ UNCHANGED result
    /\ UNCHANGED << params, uri, attempt, attempt_locals, res, counters,
                    connector_failed >>
    /\ UNCHANGED << request, engine_request, wrapped, open >>

\* the next iteration of the for loop: create_request and the call of
\* try_client_handshake, mod.rs 94-97
ForNext ==
    /\ pc = "for"
    /\ attempt < bound
    /\ attempts' = attempts + 1
    /\ mode' = NoMode
    /\ port' = 0
    /\ addrs' = 0
    /\ idx' = 0
    /\ tried' = ZeroTried
    /\ outcome' = Untried
    /\ domain' = NoDomain
    /\ stream' = NoStream
    /\ pc' = "uri_mode"
    /\ UNCHANGED << params, uri, bound, attempt, res, result, engine_calls,
                    connector_failed >>
    /\ request' = create_request(parts, uri)
    /\ engine_request' = NoRequest
    /\ wrapped' = Unwrapped
    /\ UNCHANGED open

\* the range is exhausted: unreachable!, mod.rs 112
Unreachable ==
    /\ pc = "for"
    /\ ~(attempt < bound)
    /\ Finish(Panic("Bug in a redirect handling logic"))
    /\ UNCHANGED << params, uri, bound, attempt, attempt_locals, res, counters,
                    connector_failed >>
    /\ UNCHANGED << request, engine_request, wrapped, open >>

\* try_client_handshake returns r before the engine was invoked
ReturnEarly(r) ==
    /\ res' = r
    /\ connector_failed' = TRUE
    /\ pc' = "match"

\* UriModeStep that looks for the host before it looks at the scheme
UriModeStep_HostFirst ==
    /\ pc = "uri_mode"
    /\ LET r == IF uri.host = NoHost
                THEN Err([kind |-> "Url", msg |-> "No host name in the URL"])
                ELSE uri_mode(uri) IN
         IF r.tag = "Ok"
         THEN /\ mode' = r.val
              /\ pc' = "host"
              /\ UNCHANGED << res, connector_failed >>
         ELSE /\ ReturnEarly(r)
              /\ UNCHANGED mode
    /\ UNCHANGED << params, uri, bound, attempt, port, addrs, idx, tried,
                    outcome, domain, stream, result, counters >>
    /\ UNCHANGED << request, engine_request, wrapped, open >>

\* let mode = uri_mode(uri)?, mod.rs 64-65
UriModeStep ==
    /\ pc = "uri_mode"
    /\ LET r == uri_mode(uri) IN
         IF r.tag = "Ok"
         THEN /\ mode' = r.val
              /\ pc' = "host"
              /\ UNCHANGED << res, connector_failed >>
         ELSE /\ ReturnEarly(r)
              /\ UNCHANGED mode
    /\ UNCHANGED << params, uri, bound, attempt, port, addrs, idx, tried,
                    outcome, domain, stream, result, counters >>
    /\ UNCHANGED << request, engine_request, wrapped, open >>

\* let host = ..ok_or_else(..)?; let port = .., mod.rs 66-71
HostPort ==
    /\ pc = "host"
    /\ IF uri.host = NoHost
       THEN /\ ReturnEarly(Err([kind |-> "Url", msg |-> "No host name in the URL"]))
            /\ UNCHANGED port
       ELSE /\ port' = port_of(uri, mode)
            /\ pc' = "resolve"
            /\ UNCHANGED << res, connector_failed >>
    /\ UNCHANGED << params, uri, bound, attempt, mode, addrs, idx, tried,
                    outcome, domain, stream, result, counters >>
    /\ UNCHANGED << request, engine_request, wrapped, open >>

\* let addrs = (host, port).to_socket_addrs()?, mod.rs 72
Resolve ==
    /\ pc = "resolve"
    /\ \/ /\ ReturnEarly(Err([kind |-> "Io", msg |-> "to_socket_addrs"]))
          /\ UNCHANGED addrs
       \/ /\ \E n \in 0 .. MaxAddrs : addrs' = n
          /\ pc' = "connect_to_some"
          /\ UNCHANGED << res, connector_failed >>
    /\ UNCHANGED << params, uri, bound, attempt, mode, port, idx, tried,
                    outcome, domain, stream, result, counters >>
    /\ UNCHANGED << request, engine_request, wrapped, open >>


----------------------------------------------------------------------------
(* connect_to_some, mod.rs 166-182 *)

\* ConnectToSome that takes the domain from the first resolved address
ConnectToSome_AddressDomain ==
    /\ pc = "connect_to_some"
    /\ IF uri.host = NoHost
       THEN /\ ReturnEarly(Err([kind |-> "Url", msg |-> "No host name in the URL"]))
            /\ UNCHANGED << domain, idx >>
       ELSE /\ domain' = "192.0.2.1"
            /\ idx' = 1
            /\ pc' = "addr"
            /\ UNCHANGED << res, connector_failed >>
    /\ UNCHANGED << params, uri, bound, attempt, mode, port, addrs, tried,
                    outcome, stream, result, counters >>
    /\ UNCHANGED << request, engine_request, wrapped, open >>

\* let domain = uri.host().ok_or_else(..)?, mod.rs 172
ConnectToSome ==
    /\ pc = "connect_to_some"
    /\ IF uri.host = NoHost
       THEN /\ ReturnEarly(Err([kind |-> "Url", msg |-> "No host name in the URL"]))
            /\ UNCHANGED << domain, idx >>
       ELSE /\ domain' = uri.host
            /\ idx' = 1
            /\ pc' = "addr"
            /\ UNCHANGED << res, connector_failed >>
    /\ UNCHANGED << params, uri, bound, attempt, mode, port, addrs, tried,
                    outcome, stream, result, counters >>
    /\ UNCHANGED << request, engine_request, wrapped, open >>

\* TcpStream::connect(addr) for the next address, mod.rs 173-175; a failure
\* falls out of the if let and the loop advances
TcpConnect ==
    /\ pc = "addr"
    /\ idx <= addrs
    /\ tried' = [tried EXCEPT ![idx] = @ + 1]
    /\ \E connected \in BOOLEAN :
         IF connected
         THEN /\ pc' = "wrap"
              /\ open' = open \cup {Tcp(attempt, idx)}
              /\ UNCHANGED << idx, outcome >>
         ELSE /\ outcome' = [outcome EXCEPT ![idx] = "connect_failed"]
              /\ idx' = idx + 1
              /\ pc' = "addr"
              /\ UNCHANGED open
    /\ UNCHANGED << params, uri, bound, attempt, mode, port, addrs, domain,
                    stream, res, result, counters, connector_failed >>
    /\ UNCHANGED << request, engine_request, wrapped >>

\* Wrap that tries the same address again after a failed wrap
Wrap_RetriesAddress ==
    /\ pc = "wrap"
    /\ \E env \in TlsEnvs :
         LET w == wrap_stream(backend, mode, env) IN
           CASE w.tag = "Ok" ->
                  /\ stream' = [addr |-> idx, variant |-> w.val.variant,
                                tls |-> w.val.tls, latent |-> w.val.latent]
                  /\ UNCHANGED open
                  /\ outcome' = [outcome EXCEPT ![idx] = "ok"]
                  /\ pc' = "nodelay"
                  /\ UNCHANGED << idx, result, connector_failed >>
             [] w.tag = "Err" ->
                  /\ outcome' = [outcome EXCEPT ![idx] = "wrap_failed"]
                  /\ open' = open \ {Tcp(attempt, idx)}
                  /\ pc' = "addr"
                  /\ UNCHANGED << idx, stream, result, connector_failed >>
             [] OTHER ->
                  /\ Finish(w)
                  /\ outcome' = [outcome EXCEPT ![idx] = "wrap_panicked"]
                  /\ open' = open \ {Tcp(attempt, idx)}
                  /\ connector_failed' = TRUE
                  /\ UNCHANGED << idx, stream >>
    /\ wrapped' = [wrapped EXCEPT ![idx] = domain]
    /\ UNCHANGED << params, uri, bound, attempt, mode, port, addrs, tried,
                    domain, res, counters, request, engine_request >>

\* Wrap that hands a wrap failure to the caller with the ? operator
Wrap_Propagates ==
    /\ pc = "wrap"
    /\ \E env \in TlsEnvs :
         LET w == wrap_stream(backend, mode, env) IN
           CASE w.tag = "Ok" ->
                  /\ stream' = [addr |-> idx, variant |-> w.val.variant,
                                tls |-> w.val.tls, latent |-> w.val.latent]
                  /\ UNCHANGED open
                  /\ outcome' = [outcome EXCEPT ![idx] = "ok"]
                  /\ pc' = "nodelay"
                  /\ UNCHANGED << idx, res, result, connector_failed >>
             [] w.tag = "Err" ->
                  /\ outcome' = [outcome EXCEPT ![idx] = "wrap_failed"]
                  /\ open' = open \ {Tcp(attempt, idx)}
                  /\ ReturnEarly(w)
                  /\ UNCHANGED << idx, stream, result >>
             [] OTHER ->
                  /\ Finish(w)
                  /\ outcome' = [outcome EXCEPT ![idx] = "wrap_panicked"]
                  /\ open' = open \ {Tcp(attempt, idx)}
                  /\ connector_failed' = TRUE
                  /\ UNCHANGED << idx, stream, res >>
    /\ wrapped' = [wrapped EXCEPT ![idx] = domain]
    /\ UNCHANGED << params, uri, bound, attempt, mode, port, addrs, tried,
                    domain, counters, request, engine_request >>

\* wrapper.wrap_stream(raw_stream, domain, mode), mod.rs 176-178
Wrap ==
    /\ pc = "wrap"
    /\ \E env \in TlsEnvs :
         LET w == wrap_stream(backend, mode, env) IN
           CASE w.tag = "Ok" ->
                  /\ stream' = [addr |-> idx, variant |-> w.val.variant,
                                tls |-> w.val.tls, latent |-> w.val.latent]
                  /\ UNCHANGED open
                  /\ outcome' = [outcome EXCEPT ![idx] = "ok"]
                  /\ pc' = "nodelay"
                  /\ UNCHANGED << idx, result, connector_failed >>
             [] w.tag = "Err" ->
                  /\ outcome' = [outcome EXCEPT ![idx] = "wrap_failed"]
                  /\ open' = open \ {Tcp(attempt, idx)}
                  /\ idx' = idx + 1
                  /\ pc' = "addr"
                  /\ UNCHANGED << stream, result, connector_failed >>
             [] OTHER ->
                  /\ Finish(w)
                  /\ outcome' = [outcome EXCEPT ![idx] = "wrap_panicked"]
                  /\ open' = open \ {Tcp(attempt, idx)}
                  /\ connector_failed' = TRUE
                  /\ UNCHANGED << idx, stream >>
    /\ wrapped' = [wrapped EXCEPT ![idx] = domain]
    /\ UNCHANGED << params, uri, bound, attempt, mode, port, addrs, tried,
                    domain, res, counters, request, engine_request >>

\* the address list is exhausted, mod.rs 181
Exhausted ==
    /\ pc = "addr"
    /\ ~(idx <= addrs)
    /\ ReturnEarly(Err([kind |-> "Url", msg |-> "Unable to connect to",
                        uri |-> uri]))
    /\ UNCHANGED << params, uri, bound, attempt, attempt_locals, result,
                    counters >>
    /\ UNCHANGED << request, engine_request, wrapped, open >>

----------------------------------------------------------------------------
(* try_client_handshake after the connector, mod.rs 74-78 *)

\* NoDelay::set_nodelay(&mut stream, true)?, mod.rs 74
SetNoDelay ==
    /\ pc = "nodelay"
    /\ \E done \in BOOLEAN :
         IF done
         THEN /\ pc' = "handshake"
              /\ UNCHANGED << res, connector_failed, open >>
         ELSE /\ ReturnEarly(Err([kind |-> "Io", msg |-> "set_nodelay"]))
              /\ open' = open \ {Tcp(attempt, stream.addr)}
    /\ UNCHANGED << params, uri, bound, attempt, attempt_locals, result,
                    counters >>
    /\ UNCHANGED << request, engine_request, wrapped >>

\* Handshake that turns the Interrupted outcome into a returned error
Handshake_InterruptedAsError ==
    /\ pc = "handshake"
    /\ engine_calls' = engine_calls + 1
    /\ \E loc \in ValidLocations :
         LET o == handshake_over(stream,
                                 engine_outcome(plan, engine_calls + 1, loc)) IN
           CASE o.tag = "Ok" ->
                  /\ res' = Ok([stream |-> stream, response |-> o.response])
                  /\ pc' = "match"
                  /\ UNCHANGED << result, open >>
             [] o.tag = "Failure" ->
                  /\ res' = Err(o.err)
                  /\ pc' = "match"
                  /\ open' = open \ {Tcp(attempt, stream.addr)}
                  /\ UNCHANGED result
             [] OTHER ->
                  /\ res' = Err([kind |-> "Io", msg |-> "WouldBlock"])
                  /\ pc' = "match"
                  /\ open' = open \ {Tcp(attempt, stream.addr)}
                  /\ UNCHANGED result
    /\ engine_request' = request
    /\ connector_failed' = (connector_failed \/ stream.latent # "none")
    /\ UNCHANGED << params, uri, bound, attempt, attempt_locals, attempts,
                    request, wrapped >>

\* Handshake whose failed engine leaves the stream of the attempt open
Handshake_KeepsStream ==
    /\ pc = "handshake"
    /\ engine_calls' = engine_calls + 1
    /\ \E loc \in ValidLocations :
         LET o == handshake_over(stream,
                                 engine_outcome(plan, engine_calls + 1, loc)) IN
           CASE o.tag = "Ok" ->
                  /\ res' = Ok([stream |-> stream, response |-> o.response])
                  /\ pc' = "match"
                  /\ UNCHANGED << result, open >>
             [] o.tag = "Failure" ->
                  /\ res' = Err(o.err)
                  /\ pc' = "match"
                  /\ UNCHANGED << result, open >>
             [] OTHER ->
                  /\ Finish(Panic("Bug: blocking handshake not blocked"))
                  /\ open' = open \ {Tcp(attempt, stream.addr)}
                  /\ UNCHANGED res
    /\ engine_request' = request
    /\ connector_failed' = (connector_failed \/ stream.latent # "none")
    /\ UNCHANGED << params, uri, bound, attempt, attempt_locals, attempts,
                    request, wrapped >>

\* client_with_config(request, stream, config).map_err(..), mod.rs 75-78
Handshake ==
    /\ pc = "handshake"
    /\ engine_calls' = engine_calls + 1
    /\ \E loc \in ValidLocations :
         LET o == handshake_over(stream,
                                 engine_outcome(plan, engine_calls + 1, loc)) IN
           CASE o.tag = "Ok" ->
                  /\ res' = Ok([stream |-> stream, response |-> o.response])
                  /\ pc' = "match"
                  /\ UNCHANGED << result, open >>
             [] o.tag = "Failure" ->
                  /\ res' = Err(o.err)
                  /\ pc' = "match"
                  /\ open' = open \ {Tcp(attempt, stream.addr)}
                  /\ UNCHANGED result
             [] OTHER ->
                  /\ Finish(Panic("Bug: blocking handshake not blocked"))
                  /\ open' = open \ {Tcp(attempt, stream.addr)}
                  /\ UNCHANGED res
    /\ engine_request' = request
    /\ connector_failed' = (connector_failed \/ stream.latent # "none")
    /\ UNCHANGED << params, uri, bound, attempt, attempt_locals, attempts,
                    request, wrapped >>

----------------------------------------------------------------------------
(* the match of connect_with_config, mod.rs 97-109 *)

\* MatchRedirect whose continue does not advance the loop variable
MatchRedirect_NoAdvance ==
    /\ pc = "match"
    /\ is_redirect_arm(res, attempt, max_redirects)
    /\ res.err.response.location.present
    /\ LET p == parse_location(res.err.response.location) IN
         IF p.tag = "Ok"
         THEN /\ uri' = p.val
              /\ pc' = "for"
              /\ UNCHANGED << result, attempt >>
         ELSE /\ Finish(p)
              /\ UNCHANGED << uri, attempt >>
    /\ UNCHANGED << params, bound, attempt_locals, res, counters,
                    connector_failed >>
    /\ UNCHANGED << request, engine_request, wrapped, open >>

\* the first arm with a Location header, mod.rs 98-102
MatchRedirect ==
    /\ pc = "match"
    /\ is_redirect_arm(res, attempt, max_redirects)
    /\ res.err.response.location.present
    /\ LET p == parse_location(res.err.response.location) IN
         IF p.tag = "Ok"
         THEN /\ uri' = p.val
              /\ attempt' = attempt + 1
              /\ pc' = "for"
              /\ UNCHANGED result
         ELSE /\ Finish(p)
              /\ UNCHANGED << uri, attempt >>
    /\ UNCHANGED << params, bound, attempt_locals, res, counters,
                    connector_failed >>
    /\ UNCHANGED << request, engine_request, wrapped, open >>

\* MatchNoLocation that goes round the loop again instead of returning
MatchNoLocation_Retries ==
    /\ pc = "match"
    /\ is_redirect_arm(res, attempt, max_redirects)
    /\ ~res.err.response.location.present
    /\ attempt' = attempt + 1
    /\ pc' = "for"
    /\ UNCHANGED << params, uri, bound, attempt_locals, res, result, counters,
                    connector_failed >>
    /\ UNCHANGED << request, engine_request, wrapped, open >>

\* the first arm without a Location header, mod.rs 103-106
MatchNoLocation ==
    /\ pc = "match"
    /\ is_redirect_arm(res, attempt, max_redirects)
    /\ ~res.err.response.location.present
    /\ Finish(Err([kind |-> "Http", response |-> res.err.response]))
    /\ UNCHANGED << params, uri, bound, attempt, attempt_locals, res, counters,
                    connector_failed >>
    /\ UNCHANGED << request, engine_request, wrapped, open >>

\* other => return other, mod.rs 108
MatchOther ==
    /\ pc = "match"
    /\ ~is_redirect_arm(res, attempt, max_redirects)
    /\ Finish(res)
    /\ UNCHANGED << params, uri, bound, attempt, attempt_locals, res, counters,
                    connector_failed >>
    /\ UNCHANGED << request, engine_request, wrapped, open >>

----------------------------------------------------------------------------
(* client and client_with_config, mod.rs 202-228 *)

\* client: client_with_config(request, stream, None), mod.rs 227
Client ==
    /\ pc = "client"
    /\ pc' = "client_with_config"
    /\ UNCHANGED << params, uri, bound, attempt, attempt_locals, res, result,
                    counters, connector_failed, request, engine_request,
                    wrapped, open >>

\* ClientWithConfig that starts the handshake again on a redirect
ClientWithConfig_FollowsRedirect ==
    /\ pc = "client_with_config"
    /\ IF uri = BadInput
       THEN /\ Finish(Err([kind |-> "Failure",
                           error |-> [kind |-> "Url", msg |-> "into_client_request"]]))
            /\ UNCHANGED << request, engine_request, engine_calls >>
       ELSE /\ request' = create_request(parts, uri)
            /\ engine_request' = request'
            /\ engine_calls' = engine_calls + 1
            /\ \E loc \in ValidLocations :
                 LET o == handshake_over(stream,
                                         engine_outcome(plan, engine_calls + 1, loc)) IN
                   CASE o.tag = "Ok" ->
                          Finish(Ok([stream |-> stream, response |-> o.response]))
                     [] o.tag = "Failure" ->
                          IF o.err.kind = "Http" /\ is_redirection(o.err.response.status)
                          THEN UNCHANGED << pc, result >>
                          ELSE Finish(Err([kind |-> "Failure", error |-> o.err]))
                     [] OTHER -> Finish(Err([kind |-> "Interrupted"]))
    /\ UNCHANGED << params, uri, bound, attempt, attempt_locals, res, attempts,
                    connector_failed, wrapped, open >>

\* client_with_config: request.into_client_request()?, then
\* ClientHandshake::start(stream, request, config)?.handshake(), mod.rs 211;
\* the HandshakeError goes to the caller as it is
ClientWithConfig ==
    /\ pc = "client_with_config"
    /\ IF uri = BadInput
       THEN /\ Finish(Err([kind |-> "Failure",
                           error |-> [kind |-> "Url", msg |-> "into_client_request"]]))
            /\ UNCHANGED << request, engine_request, engine_calls >>
       ELSE /\ request' = create_request(parts, uri)
            /\ engine_request' = request'
            /\ engine_calls' = engine_calls + 1
            /\ \E loc \in ValidLocations :
                 LET o == handshake_over(stream,
                                         engine_outcome(plan, engine_calls + 1, loc)) IN
                   CASE o.tag = "Ok" ->
                          Finish(Ok([stream |-> stream, response |-> o.response]))
                     [] o.tag = "Failure" ->
                          Finish(Err([kind |-> "Failure", error |-> o.err]))
                     [] OTHER -> Finish(Err([kind |-> "Interrupted"]))
    /\ UNCHANGED << params, uri, bound, attempt, attempt_locals, res, attempts,
                    connector_failed, wrapped, open >>

----------------------------------------------------------------------------

Next ==
    \/ Client
    \/ ClientWithConfig
    \/ Normalize
    \/ EnterLoop
    \/ ForNext
    \/ Unreachable
    \/ UriModeStep
    \/ HostPort
    \/ Resolve
    \/ ConnectToSome
    \/ TcpConnect
    \/ Wrap
    \/ Exhausted
    \/ SetNoDelay
    \/ Handshake
    \/ MatchRedirect
    \/ MatchNoLocation
    \/ MatchOther

Spec == Init /\ [][Next]_vars

TypeOK ==
    /\ pc \in { "client", "client_with_config", "start", "range", "for", "uri_mode", "host", "resolve",
                "connect_to_some", "addr", "wrap", "nodelay", "handshake",
                "match", "done" }
    /\ attempt \in 0 .. U8Max
    /\ bound \in 0 .. U8Max
    /\ attempts \in 0 .. U8Max + 1
    /\ entry = "connect_with_config" => engine_calls <= attempts
    /\ idx \in 0 .. MaxAddrs + 1


----------------------------------------------------------------------------
(* Properties *)

HttpErr(r) == r.tag = "Err" /\ r.err.kind = "Http"
\* an HTTP error whose status is of the 3xx class
RedirectErr(r) == HttpErr(r) /\ r.err.response.status \in 300 .. 399

\* C1: connect_with_config never performs more than max_redirects + 1
\* connect+handshake attempts, whatever the connector and the engine report.
C1_AttemptBound == attempts <= max_redirects + 1

\* the bound is reached: three attempts with max_redirects = 2
C1_Witness ==
    /\ pc = "done"
    /\ max_redirects = 2
    /\ attempts = max_redirects + 1
    /\ engine_calls = attempts

\* C2: when the engine redirects with a valid Location on its first R
\* invocations and succeeds on the next one, max_redirects >= R and the
\* connector delivers a stream on every attempt, the call ends with exactly
\* R + 1 attempts and returns the success of attempt R + 1; every attempt
\* after the first goes to the target of the previous Location.
C2_RedirectsThenSuccess ==
    /\ ( /\ pc = "done"
         /\ entry = "connect_with_config"
         /\ plan.final = "Success"
         /\ plan.redirects <= max_redirects
         /\ ~connector_failed )
       => /\ result.tag = "Ok"
          /\ attempts = plan.redirects + 1
          /\ engine_calls = plan.redirects + 1
          /\ result.val.response.call = plan.redirects + 1
          /\ result.val.stream = stream
    /\ ( /\ attempt > 0
         /\ pc \in { "uri_mode", "host", "resolve", "connect_to_some", "addr",
                     "wrap", "nodelay", "handshake" } )
       => /\ RedirectErr(res)
          /\ res.err.response.location.present
          /\ parse_location(res.err.response.location) = Ok(uri)

\* C3: when the engine redirects with a valid Location on each of its first
\* R invocations, max_redirects < R and the connector delivers a stream on
\* every attempt, the call ends with exactly max_redirects + 1 attempts and
\* returns the HTTP error of the last one.
C3_BudgetExhausted ==
    ( /\ pc = "done"
      /\ entry = "connect_with_config"
      /\ plan.redirects > max_redirects
      /\ ~connector_failed )
    => /\ attempts = max_redirects + 1
       /\ RedirectErr(result)
       /\ result.err.response.call = max_redirects + 1

\* C4: a 3xx failure without a Location header is returned as it is by the
\* next step, with no further connect or handshake attempt.
C4_NoLocationReturns ==
    [][ ( /\ pc = "match"
          /\ RedirectErr(res)
          /\ ~res.err.response.location.present )
        => /\ pc' = "done"
           /\ result' = res
           /\ attempts' = attempts
           /\ engine_calls' = engine_calls
           /\ tried' = tried ]_vars

\* a 3xx without Location came back while redirect budget remained
C4_Witness ==
    /\ pc = "done"
    /\ RedirectErr(result)
    /\ ~result.err.response.location.present
    /\ attempt < max_redirects
    /\ plan.redirects = 1
    /\ attempts = 2

\* C5: a failure that is not an HTTP error with a 3xx status is returned
\* unchanged by the next step, with no further attempt.
C5_OtherErrorsReturn ==
    [][ ( /\ pc = "match"
          /\ res.tag = "Err"
          /\ ~RedirectErr(res) )
        => /\ pc' = "done"
           /\ result' = res
           /\ attempts' = attempts
           /\ engine_calls' = engine_calls
           /\ tried' = tried ]_vars

\* a 404 that carries a Location header came back while budget remained
C5_Witness ==
    /\ pc = "done"
    /\ HttpErr(result)
    /\ result.err.response.status = 404
    /\ result.err.response.location.present
    /\ attempt < max_redirects


Failed(a) == outcome[a] \in {"connect_failed", "wrap_failed"}

\* C6: connect_to_some tries the addresses in order and each at most once;
\* the stream it returns comes from the first address whose connect and wrap
\* both succeeded, every earlier address was tried exactly once and failed,
\* and no later address is ever connected.
C6_FirstGoodAddress ==
    /\ \A a \in 1 .. MaxAddrs : tried[a] <= 1
    /\ \A a, b \in 1 .. MaxAddrs : (a < b /\ tried[b] = 1) => tried[a] = 1
    /\ stream.addr # 0 =>
         /\ outcome[stream.addr] = "ok"
         /\ tried[stream.addr] = 1
         /\ \A a \in 1 .. MaxAddrs :
              /\ a < stream.addr => (tried[a] = 1 /\ Failed(a))
              /\ a > stream.addr => (tried[a] = 0 /\ outcome[a] = "untried")

\* the second of three addresses gave the stream, after a failed wrap on the
\* first, and the call has returned
C6_Witness ==
    /\ pc = "done"
    /\ result.tag = "Ok"
    /\ addrs = 3
    /\ stream.addr = 2
    /\ outcome[1] = "wrap_failed"
    /\ tried[3] = 0

\* C7: when connect_to_some fails, every address of the list has been tried
\* and has failed, and the failure is the one URL error that names the
\* target, never the error of an individual connect or wrap.
C7_AggregateFailure ==
    ( /\ pc = "match"
      /\ domain # NoDomain
      /\ stream = NoStream )
    => /\ res = Err([kind |-> "Url", msg |-> "Unable to connect to",
                     uri |-> uri])
       /\ \A a \in 1 .. addrs : tried[a] = 1 /\ Failed(a)

\* two addresses, a failed connect and a failed wrap, then the URL error
C7_Witness ==
    /\ pc = "match"
    /\ res.tag = "Err"
    /\ res.err.kind = "Url"
    /\ res.err.msg = "Unable to connect to"
    /\ addrs = 2
    /\ outcome[1] = "connect_failed"
    /\ outcome[2] = "wrap_failed"

\* C8: for every max_redirects of 0 .. 255 a call whose request normalizes
\* enters the loop with an attempt count of at least one, makes at least one
\* attempt and never reaches the unreachable trap behind the loop.
C8_LoopAlwaysReturns ==
    /\ pc = "for" => bound >= 1
    /\ (pc = "done" /\ entry = "connect_with_config" /\ uri # BadInput) =>
         /\ attempts >= 1
         /\ result # Panic("Bug in a redirect handling logic")

\* C9: when the engine reports the pending outcome the call panics at once:
\* no error is returned, no redirect is taken, no further attempt is made.
C9_PendingTraps ==
    [][ ( /\ pc = "handshake"
          /\ \/ stream.latent = "would_block"
             \/ /\ stream.latent = "none"
                /\ engine_calls + 1 > plan.redirects
                /\ plan.final = "Interrupted" )
        => /\ pc' = "done"
           /\ result' = Panic("Bug: blocking handshake not blocked")
           /\ res' = res
           /\ uri' = uri
           /\ attempts' = attempts ]_vars

\* the engine reported pending on the attempt that followed a redirect
C9_Witness ==
    /\ pc = "done"
    /\ result = Panic("Bug: blocking handshake not blocked")
    /\ plan.final = "Interrupted"
    /\ engine_calls = 2

\* C10: the uri_mode step yields Plain exactly for the scheme ws and Tls
\* exactly for wss, and a URL error for every other or absent scheme; it
\* resolves nothing, connects nothing and depends on the scheme alone.
C10_UriMode ==
    [][ pc = "uri_mode" =>
          /\ uri.scheme = "ws" => (mode' = "Plain" /\ pc' = "host")
          /\ uri.scheme = "wss" => (mode' = "Tls" /\ pc' = "host")
          /\ uri.scheme \notin {"ws", "wss"} =>
               /\ mode' = NoMode
               /\ pc' = "match"
               /\ res' = Err([kind |-> "Url", msg |-> "URL scheme not supported"])
          /\ \A u \in Uris : u.scheme = uri.scheme =>
               uri_mode(u).tag = (IF pc' = "host" THEN "Ok" ELSE "Err")
          /\ UNCHANGED << addrs, tried, outcome, stream, engine_calls >> ]_vars

\* a wss target was classified as Tls
C10_Witness ==
    /\ pc = "host"
    /\ uri.scheme = "wss"
    /\ mode = "Tls"


InAttempt ==
    pc \in { "resolve", "connect_to_some", "addr", "wrap", "nodelay",
             "handshake" }

\* C11: in every attempt, for the first target as for a redirected one, the
\* port handed to address resolution is the explicit port of the current
\* target when it has one, else 80 for a ws target and 443 for a wss target.
C11_PortSelection ==
    InAttempt =>
      /\ uri.port.some => port = uri.port.val
      /\ (~uri.port.some /\ uri.scheme = "ws") => (mode = "Plain" /\ port = 80)
      /\ (~uri.port.some /\ uri.scheme = "wss") => (mode = "Tls" /\ port = 443)

\* a redirected wss target without a port is resolved on port 443
C11_Witness ==
    /\ pc = "resolve"
    /\ attempt = 1
    /\ uri.scheme = "wss"
    /\ ~uri.port.some
    /\ port = 443


BeforeEngine == pc \in {"uri_mode", "host"} \/ InAttempt

\* C12: the Request of every attempt, and the one the engine is handed, has
\* the method, version and headers of the caller's normalized request; only
\* its URI changes, and after a redirect it is the URI of the Location header
\* of the previous attempt's response.
C12_RequestParts ==
    /\ BeforeEngine =>
         /\ request.method = parts.method
         /\ request.version = parts.version
         /\ request.headers = parts.headers
         /\ request.uri = uri
    /\ (BeforeEngine /\ attempt > 0) =>
         /\ res.tag = "Err"
         /\ res.err.response.location.present
         /\ res.err.response.location.text
         /\ res.err.response.location.syntax
         /\ res.err.response.location.target = request.uri
    /\ engine_calls > 0 /\ pc \in {"match", "done"} /\ engine_request # NoRequest =>
         /\ engine_request.method = parts.method
         /\ engine_request.version = parts.version
         /\ engine_request.headers = parts.headers
         /\ engine_request.uri = uri
    /\ pc = "handshake" => engine_request = NoRequest

\* the engine got the caller's POST request for the redirected target
C12_Witness ==
    /\ pc = "match"
    /\ attempt = 1
    /\ engine_request.method = "POST"
    /\ engine_request.headers # {}
    /\ engine_request.uri = uri
    /\ res.tag = "Ok"


WrapCalled(a) == outcome[a] \in {"ok", "wrap_failed", "wrap_panicked"}

\* C13: every wrap_stream call of an attempt gets as domain the host of the
\* target URI of that attempt, the same for every address, and every stream
\* that connected is wrapped with it.
C13_WrapDomain ==
    pc # "for" =>
      \A a \in 1 .. MaxAddrs :
        /\ wrapped[a] # NoDomain =>
             /\ wrapped[a] = uri.host
             /\ wrapped[a] = request.uri.host
             /\ WrapCalled(a)
        /\ WrapCalled(a) => wrapped[a] # NoDomain

\* after a redirect to b.example two addresses were wrapped, both with the
\* host b.example
C13_Witness ==
    /\ attempt = 1
    /\ uri.host = "b.example"
    /\ outcome[1] = "wrap_failed"
    /\ outcome[2] = "ok"
    /\ wrapped[1] = "b.example"
    /\ wrapped[2] = "b.example"


\* C14: client and client_with_config invoke the handshake engine at most
\* once, exactly once when the request normalizes, over the caller's stream;
\* they resolve, connect and wrap nothing and follow no redirect: a 3xx with
\* a Location header comes back as the failure of that one handshake.
C14_ClientHandshakeOnly ==
    entry \in {"client", "client_with_config"} =>
      /\ engine_calls <= 1
      /\ attempts = 0
      /\ mode = NoMode /\ addrs = 0 /\ domain = NoDomain
      /\ tried = ZeroTried /\ wrapped = Unwrapped /\ open = {}
      /\ stream = CallerStream
      /\ (pc = "done" /\ uri # BadInput) =>
           /\ engine_calls = 1
           /\ engine_request = [uri |-> uri, method |-> parts.method,
                                version |-> parts.version,
                                headers |-> parts.headers]
           /\ result.tag = "Ok" => result.val.stream = CallerStream
      /\ (pc = "done" /\ uri # BadInput /\ plan.redirects >= 1) =>
           /\ result.tag = "Err"
           /\ result.err.kind = "Failure"
           /\ result.err.error.kind = "Http"
           /\ result.err.error.response.status \in 300 .. 399
           /\ result.err.error.response.location.present
           /\ result.err.error.response.call = 1

\* client got a 3xx with a Location header and handed it back after one
\* handshake
C14_Witness ==
    /\ entry = "client"
    /\ pc = "done"
    /\ plan.redirects = 2
    /\ engine_calls = 1
    /\ result.tag = "Err"
    /\ result.err.kind = "Failure"
    /\ result.err.error.kind = "Http"
    /\ result.err.error.response.location.present


TlsPicked(b) ==
    /\ entry = "connect_with_config"
    /\ backend = b
    /\ mode = "Tls"
    /\ stream.addr # 0

\* C15 as claimed: with either TLS backend the stream the connector picks
\* under Mode::Tls has had its handshake carried out inside wrap_stream, and
\* the two wrap_stream functions succeed, fail and trap on the same outcomes
\* of the TLS library, so that the connector picks the same address.
C15_SameContract ==
    /\ (TlsPicked("native_tls") \/ TlsPicked("rustls")) =>
         (stream.tls = "established" /\ stream.latent = "none")
    /\ (pc = "wrap" /\ mode = "Tls" /\ backend \in {"native_tls", "rustls"}) =>
         \A env \in TlsEnvs :
           native_tls_wrap_stream(mode, env).tag = rustls_wrap_stream(mode, env).tag

\* C15 amended: Backend A completes the TLS handshake inside wrap_stream,
\* fails the call when it fails and traps on would-block.  Backend B starts
\* no handshake in wrap_stream: the call fails only for a domain that is no
\* DNS name, never traps, and returns a stream whose handshake is still to
\* come; its failure or would-block then comes out of the handshake engine
\* and the connector has not advanced.  The two wrap_stream functions agree
\* where the handshake succeeds and where the domain is no DNS name.
C15_BackendContracts ==
    /\ TlsPicked("native_tls") =>
         (stream.tls = "established" /\ stream.latent = "none")
    /\ TlsPicked("rustls") => stream.tls = "not started"
    /\ backend = "rustls" =>
         /\ result # Panic("Bug: TLS handshake not blocked")
         /\ \A a \in 1 .. MaxAddrs : outcome[a] # "wrap_panicked"
    /\ (backend = "native_tls" /\ \E a \in 1 .. MaxAddrs : outcome[a] = "wrap_panicked") =>
         (pc = "done" /\ result = Panic("Bug: TLS handshake not blocked"))
    /\ ( /\ TlsPicked("rustls")
         /\ pc = "match"
         /\ engine_request # NoRequest
         /\ stream.latent = "handshake_fails" ) =>
         res = Err([kind |-> "Io", msg |-> "TLS handshake"])
    /\ ( /\ TlsPicked("rustls")
         /\ pc = "done"
         /\ engine_request # NoRequest
         /\ stream.latent = "would_block" ) =>
         result = Panic("Bug: blocking handshake not blocked")
    /\ (pc = "wrap" /\ mode = "Tls" /\ backend \in {"native_tls", "rustls"}) =>
         \A env \in {"ok", "bad_dns_name"} :
           native_tls_wrap_stream(mode, env).tag = rustls_wrap_stream(mode, env).tag

\* Backend B: the first of two addresses was picked although its TLS
\* handshake fails, the failure came out of the engine and the second
\* address was never tried
C15_Witness ==
    /\ TlsPicked("rustls")
    /\ pc = "match"
    /\ addrs = 2
    /\ stream.addr = 1
    /\ stream.latent = "handshake_fails"
    /\ tried[2] = 0
    /\ engine_request # NoRequest
    /\ res.tag = "Err"


\* C16: under Mode::Plain the wrap_stream of every strategy succeeds
\* whatever the TLS library would do, and yields the Plain variant of that
\* strategy around the TCP stream it was given; so for a ws target the
\* connector returns the first address whose TCP connect succeeded.
C16_PlainPassThrough ==
    (entry = "connect_with_config" /\ mode = "Plain") =>
      /\ \A a \in 1 .. MaxAddrs : outcome[a] \notin {"wrap_failed", "wrap_panicked"}
      /\ result # Panic("Bug: TLS handshake not blocked")
      /\ pc = "wrap" =>
           \A e1, e2 \in TlsEnvs :
             /\ wrap_stream(backend, mode, e1).tag = "Ok"
             /\ wrap_stream(backend, mode, e1) = wrap_stream(backend, mode, e2)
      /\ stream.addr # 0 =>
           /\ stream.variant = ( CASE backend = "plain" -> "Tcp"
                                   [] backend = "native_tls" -> "NativeTls(Plain)"
                                   [] backend = "rustls" -> "Rustls(Plain)" )
           /\ stream.tls = "none"
           /\ stream.latent = "none"
           /\ \A a \in 1 .. MaxAddrs : a < stream.addr => outcome[a] = "connect_failed"
           /\ pc \in {"nodelay", "handshake"} => open = {[attempt |-> attempt, addr |-> stream.addr]}

\* Backend A, a ws target: the first connect failed and the second address
\* came back as the Plain variant
C16_Witness ==
    /\ entry = "connect_with_config"
    /\ backend = "native_tls"
    /\ mode = "Plain"
    /\ pc = "nodelay"
    /\ stream.addr = 2
    /\ stream.variant = "NativeTls(Plain)"
    /\ outcome[1] = "connect_failed"


\* the attempt failed with a 3xx response, attempts remain, and the
\* Location header is there but is not text or is not a URI
BadLocation(r) ==
    /\ r.tag = "Err"
    /\ r.err.kind = "Http"
    /\ r.err.response.status \in 300 .. 399
    /\ r.err.response.location.present
    /\ ~(r.err.response.location.text /\ r.err.response.location.syntax)

\* C17: when an attempt fails with a 3xx response and attempts remain but
\* the Location value is not text or is not a URI, connect_with_config
\* returns the parse error, neither the HTTP error nor a success, and makes
\* no further attempt.
C17_BadLocationReturns ==
    (entry = "connect_with_config" /\ BadLocation(res) /\ attempt < max_redirects) =>
      /\ pc \in {"match", "done"}
      /\ attempts = attempt + 1
      /\ pc = "done" =>
           /\ result.tag = "Err"
           /\ result.err.kind \in {"ToStr", "InvalidUri"}
           /\ result.err.kind = "ToStr" <=> ~res.err.response.location.text
           /\ result # res

\* the second attempt got a 308 whose Location is text but no URI, one
\* redirect was still allowed, and the call has returned
C17_Witness ==
    /\ entry = "connect_with_config"
    /\ pc = "done"
    /\ max_redirects = 2
    /\ attempt = 1
    /\ attempts = 2
    /\ BadLocation(res)
    /\ res.err.response.location = NotUriLocation
    /\ result = Err([kind |-> "InvalidUri", msg |-> "Location is not a URI"])


\* an attempt on the current target has begun and has left the scheme check
PastSchemeCheck ==
    /\ entry = "connect_with_config"
    /\ attempts = attempt + 1
    /\ pc \notin {"start", "range", "for", "uri_mode"}

\* C18: an attempt whose target URI has a scheme other than ws or wss, or
\* none, fails with the URL error of the scheme check before any address
\* resolution, TCP connect or engine invocation, also when the URI has no
\* host; connect_with_config returns that error, not the redirect response
\* that led to the URI.
C18_SchemeCheckedFirst ==
    (PastSchemeCheck /\ uri.scheme \notin {"ws", "wss"}) =>
      /\ pc \in {"match", "done"}
      /\ res = Err([kind |-> "Url", msg |-> "URL scheme not supported"])
      /\ mode = NoMode
      /\ addrs = 0
      /\ tried = ZeroTried
      /\ open = {}
      /\ stream = NoStream
      /\ engine_request = NoRequest
      /\ engine_calls = attempt
      /\ pc = "done" => result = res

\* a redirect led to a relative path, no scheme and no host: the second
\* attempt returned the scheme error
C18_Witness ==
    /\ PastSchemeCheck
    /\ pc = "done"
    /\ attempt = 1
    /\ engine_calls = 1
    /\ uri.scheme = NoScheme
    /\ uri.host = NoHost
    /\ result = Err([kind |-> "Url", msg |-> "URL scheme not supported"])


\* C19: at every point of a connect_with_config call at most one TCP stream
\* opened by the call is alive, and it is the one of the address being
\* tried; none is alive when the next address or the next attempt is about
\* to connect, none after an error return or a panic, and exactly the
\* returned one after a success.
C19_OneStreamAlive ==
    entry = "connect_with_config" =>
      /\ Cardinality(open) <= 1
      /\ open \subseteq {[attempt |-> attempt, addr |-> idx]}
      /\ pc \in {"start", "range", "for", "uri_mode", "host", "resolve",
                 "connect_to_some", "addr"} => open = {}
      /\ (pc = "match" /\ res.tag # "Ok") => open = {}
      /\ (pc = "done" /\ result.tag # "Ok") => open = {}
      /\ (pc = "done" /\ result.tag = "Ok") =>
           open = {[attempt |-> attempt, addr |-> result.val.stream.addr]}

\* second attempt after a redirect, second address after a failed wrap:
\* only the stream just connected is alive
C19_Witness ==
    /\ entry = "connect_with_config"
    /\ pc = "wrap"
    /\ attempt = 1
    /\ engine_calls = 1
    /\ idx = 2
    /\ outcome[1] = "wrap_failed"
    /\ tried[1] = 1
    /\ open = {[attempt |-> 1, addr |-> 2]}


\* C20: in a build with no TLS backend an attempt on a wss target never
\* reaches the engine and never yields a stream: every resolved address
\* gets one TCP connect, every connected stream is rejected by the wrapper
\* and dropped, and the attempt ends with the aggregate "unable to connect"
\* URL error, not with the wrapper's "TLS support not compiled in".
C20_NoTlsBackend ==
    (entry = "connect_with_config" /\ backend = "plain" /\ mode = "Tls") =>
      /\ pc \notin {"nodelay", "handshake"}
      /\ stream = NoStream
      /\ engine_request = NoRequest
      /\ engine_calls = attempt
      /\ \A a \in 1 .. MaxAddrs : outcome[a] \notin {"ok", "wrap_panicked"}
      /\ pc = "addr" => open = {}
      /\ pc \in {"match", "done"} =>
           /\ open = {}
           /\ \/ res = Err([kind |-> "Io", msg |-> "to_socket_addrs"])
              \/ /\ res = Err([kind |-> "Url", msg |-> "Unable to connect to",
                               uri |-> uri])
                 /\ \A a \in 1 .. addrs :
                      /\ tried[a] = 1
                      /\ outcome[a] \in {"connect_failed", "wrap_failed"}
           /\ pc = "done" => result = res

\* two addresses resolved, both connected, both rejected by the wrapper, and
\* the aggregate error returned
C20_Witness ==
    /\ entry = "connect_with_config"
    /\ backend = "plain"
    /\ mode = "Tls"
    /\ pc = "done"
    /\ addrs = 2
    /\ tried[1] = 1 /\ tried[2] = 1
    /\ outcome[1] = "wrap_failed" /\ outcome[2] = "wrap_failed"
    /\ open = {}
    /\ result = Err([kind |-> "Url", msg |-> "Unable to connect to", uri |-> uri])

====
